---- MODULE Spec2Model ----
(***************************************************************************)
(* Download orchestration and session registry of the soundtrack          *)
(* downloader (src/app.py): the /download, /progress and /cancel request  *)
(* handlers, the process-wide download_progress and active_downloads      *)
(* tables, and the worker thread running                                  *)
(* FixedKHInsiderDownloader.download_soundtrack.                          *)
(*                                                                         *)
(* Threads interleave between accesses to the shared tables; every action  *)
(* below is one such access together with the thread-local computation     *)
(* that precedes it.                                                       *)
(***************************************************************************)
EXTENDS Integers, Sequences, FiniteSets, TLC

\* ---------------------------------------------------------------- bounds
\* number of worker threads the /download handler may spawn
MaxWorkers == 2
\* last value of the millisecond clock (the clock starts at 0)
MaxClock == 1
\* longest track list of the album page when one download is followed
MaxTracks == 3
\* longest track list of the album page when downloads run side by side
MaxSharedTracks == 2
\* number of /cancel requests that may be in progress at once
MaxHandlers == 2

Workers == 1..MaxWorkers
Handlers == 1..MaxHandlers
\* progress ids: "download_<ms>", one per clock value
Ids == 0..MaxClock
\* display names a track of the album page may carry
Names == {"Intro", "Battle"}

\* ------------------------------------------------------------- the album
RECURSIVE SeqsUpTo(_)
SeqsUpTo(n) ==
    IF n = 0 THEN {<<>>}
    ELSE LET shorter == SeqsUpTo(n - 1)
         IN  shorter \cup {Append(s, x) : s \in {t \in shorter : Len(t) = n - 1}, x \in Names}

\* the name column of the songlist table, in row order
AlbumPages == SeqsUpTo(MaxTracks)

\* _extract_tracks_from_table: accepted rows numbered from 1 in row order
ExtractTracks(page) ==
    [k \in 1..Len(page) |-> [number |-> k, name |-> page[k]]]

\* values the request body may carry as selected_tracks: JSON null, a list of
\* names (only membership and emptiness are used), or a non-iterable truthy
\* value such as a number
Selections ==
    {[kind |-> "null", names |-> {}]}
    \cup {[kind |-> "list", names |-> S] : S \in SUBSET Names}
    \cup {[kind |-> "number", names |-> {}]}

\* Python truthiness of selected_tracks: None and the empty list are falsy
Truthy(sel) ==
    \/ sel.kind = "number"
    \/ sel.kind = "list" /\ sel.names # {}

RECURSIVE FilterSeq(_, _)
FilterSeq(s, sel) ==
    IF s = <<>> THEN <<>>
    ELSE LET rest == FilterSeq(Tail(s), sel)
         IN  IF (~Truthy(sel)) \/ (Head(s).name \in sel.names)
             THEN <<Head(s)>> \o rest
             ELSE rest

\* for a truthy non-iterable value `name in selected_tracks` raises TypeError
\* as soon as one track is tested
FilterRaises(all, sel) == sel.kind = "number" /\ Len(all) > 0

\* ----------------------------------------------------- progress records
\* a message is its format string together with the counts it prints
Msg(kind, n, m) == [kind |-> kind, n |-> n, m |-> m]

StartingRecord ==
    [status |-> "starting", current_track |-> 0, total_tracks |-> 0,
     current_file |-> "", message |-> Msg("Getting album information", 0, 0)]

\* d[k] = v for a dict d modelled as a function on its key set
DictSet(d, k, v) == [x \in (DOMAIN d) \cup {k} |-> IF x = k THEN v ELSE d[x]]

Terminal == {"completed", "error", "cancelled"}

VARIABLES
    now,                \* time.time() in milliseconds
    download_progress,  \* dict: progress id -> record
    active_downloads,   \* dict used as a set: ids not cancelled
    album,              \* the album page as the site serves it
    pc,                 \* position of each worker thread
    pid,                \* progress_id argument of each worker
    selected,           \* selected_tracks argument of each worker
    tracks,             \* local: the filtered track list
    i,                  \* local: loop index of enumerate(tracks, 1)
    done,               \* local: tracks saved
    ret,                \* return value of download_soundtrack
    cancelling,         \* position and id of each /cancel request in progress
    hist,               \* history: per worker facts about its run
    req,                \* a single call followed on its own: its arguments and
                        \* the upstream content it meets
    run,                \* that call's locals
    out                 \* what that call gave back to its caller

vars == <<now, download_progress, active_downloads, album, pc, pid, selected,
          tracks, i, done, ret, cancelling, hist, req, run, out>>

\* the variables of a call followed on its own
callVars == <<req, run, out>>

\* no such call is followed
NoCall == [op |-> "none"]

workerVars == <<pc, pid, selected, tracks, i, done, ret>>

IdleHandler == [pc |-> "idle", id |-> 0]

\* selected_tracks=None
NoSelection == [kind |-> "null", names |-> {}]

NoHist ==
    [begun |-> <<>>,      \* track numbers handed to download_track, in order
     finished |-> 0,      \* download_track calls that returned
     saved |-> 0,         \* files written and larger than 1000 bytes
     failed |-> {},       \* numbers of the tracks download_track gave up on
     madedir |-> FALSE,   \* os.makedirs made (or found) the album directory
     acked |-> "no",      \* a cancel of this worker's id was acknowledged:
                          \* "track" while a track was in progress, else "other"
     raised |-> FALSE]    \* the except clause ran

\* the process right after import: both tables empty, no thread started
IdleTables(pages) ==
    /\ now = 0
    /\ download_progress = <<>>
    /\ active_downloads = {}
    /\ album \in pages
    /\ pc = [w \in Workers |-> "idle"]
    /\ pid = [w \in Workers |-> 0]
    /\ selected = [w \in Workers |-> NoSelection]
    /\ tracks = [w \in Workers |-> <<>>]
    /\ i = [w \in Workers |-> 0]
    /\ done = [w \in Workers |-> 0]
    /\ ret = [w \in Workers |-> "none"]
    /\ cancelling = [h \in Handlers |-> IdleHandler]
    /\ hist = [w \in Workers |-> NoHist]

InitWith(pages) ==
    /\ IdleTables(pages)
    /\ req = NoCall
    /\ run = NoCall
    /\ out = NoCall

\* one call of a downloader method or route handler, made on the idle process
InitCall(requests) ==
    /\ IdleTables({<<>>})
    /\ req \in requests
    /\ run = NoCall
    /\ out = NoCall

Init == InitWith(SeqsUpTo(MaxSharedTracks))

InitSession == InitWith(AlbumPages)

\* the wall clock moves on by a millisecond
Tick ==
    /\ now < MaxClock
    /\ now' = now + 1
    /\ UNCHANGED <<callVars, download_progress, active_downloads, album, workerVars,
                   cancelling, hist>>

\* workers sharing a progress id with worker w (w included)
SameId(id) == {w \in Workers : pc[w] # "idle" /\ pid[w] = id}

\* record.update(fields) on download_progress[id]
Update(id, fields) ==
    download_progress' =
        [download_progress EXCEPT ![id] =
            [f \in DOMAIN @ |-> IF f \in DOMAIN fields THEN fields[f] ELSE @[f]]]

\* POST /download: make the id from the clock, mark it active, start the thread
start_download(w, sel) ==
    /\ pc[w] = "idle"
    /\ \A v \in Workers : v < w => pc[v] # "idle"
    /\ active_downloads' = active_downloads \cup {now}
    /\ pid' = [pid EXCEPT ![w] = now]
    /\ selected' = [selected EXCEPT ![w] = sel]
    /\ pc' = [pc EXCEPT ![w] = "begin"]
    /\ UNCHANGED <<callVars, now, download_progress, album, tracks, i, done, ret,
                   cancelling, hist>>

\* GET /progress/<id>: the record, or 404 when the id is not a key
get_progress(id) ==
    IF id \in DOMAIN download_progress
    THEN [code |-> 200, body |-> download_progress[id]]
    ELSE [code |-> 404, body |-> StartingRecord]

Poll(id) ==
    /\ get_progress(id).code \in {200, 404}
    /\ UNCHANGED vars

\* ------------------------------------------- download_soundtrack (worker)
Goto(w, label) == pc' = [pc EXCEPT ![w] = label]

\* the function returns: its locals are gone, the thread ends
Return(w, value) ==
    /\ ret' = [ret EXCEPT ![w] = value]
    /\ selected' = [selected EXCEPT ![w] = NoSelection]
    /\ tracks' = [tracks EXCEPT ![w] = <<>>]
    /\ i' = [i EXCEPT ![w] = 0]
    /\ done' = [done EXCEPT ![w] = 0]
    /\ Goto(w, "returned")

\* variant: the except clause returns False without recording the error
Except_Silent(w) ==
    /\ UNCHANGED download_progress
    /\ hist' = [hist EXCEPT ![w] = [NoHist EXCEPT !.raised = TRUE]]
    /\ Return(w, "false")

\* lines 429-432: except Exception as e: record the error, return False
Except(w) ==
    /\ Update(pid[w], [status |-> "error", message |-> Msg("Download failed", 0, 0)])
    /\ hist' = [hist EXCEPT ![w] = [NoHist EXCEPT !.raised = TRUE]]
    /\ Return(w, "false")

\* line 374: download_progress[progress_id] = {'status': 'starting', ...}
W_Register(w) ==
    /\ pc[w] = "begin"
    /\ download_progress' = DictSet(download_progress, pid[w], StartingRecord)
    /\ Goto(w, "info")
    /\ UNCHANGED <<callVars, now, active_downloads, album, pid, selected, tracks, i, done,
                   ret, cancelling, hist>>

\* lines 379-383: get_soundtrack_info gave None (fetch failed or raised inside)
W_AlbumNotFound(w) ==
    /\ pc[w] = "info"
    /\ Update(pid[w], [status |-> "error", message |-> Msg("Album not found", 0, 0)])
    /\ Return(w, "false")
    /\ hist' = [hist EXCEPT ![w] = NoHist]
    /\ UNCHANGED <<callVars, now, active_downloads, album, pid, cancelling>>

\* lines 379, 385-387: the album page was fetched; filter its tracks
W_Filter(w) ==
    /\ pc[w] = "info"
    /\ LET all == ExtractTracks(album) IN
       IF FilterRaises(all, selected[w])
       THEN Except(w)
       ELSE /\ tracks' = [tracks EXCEPT ![w] = FilterSeq(all, selected[w])]
            /\ selected' = [selected EXCEPT ![w] = NoSelection]  \* not read again
            /\ Goto(w, "filtered")
            /\ UNCHANGED <<download_progress, i, done, ret, hist>>
    /\ UNCHANGED <<callVars, now, active_downloads, album, pid, cancelling>>

\* variant: the function returns False without recording the error
W_NoTracks_Silent(w) ==
    /\ pc[w] = "filtered"
    /\ Len(tracks[w]) = 0
    /\ Return(w, "false")
    /\ hist' = [hist EXCEPT ![w] = NoHist]
    /\ UNCHANGED <<callVars, now, download_progress, active_downloads, album, pid, cancelling>>

\* lines 388-391: nothing to download
W_NoTracks(w) ==
    /\ pc[w] = "filtered"
    /\ Len(tracks[w]) = 0
    /\ Update(pid[w], [status |-> "error", message |-> Msg("No tracks to download", 0, 0)])
    /\ Return(w, "false")
    /\ hist' = [hist EXCEPT ![w] = NoHist]
    /\ UNCHANGED <<callVars, now, active_downloads, album, pid, cancelling>>

\* lines 393-398: enter the downloading state
W_SetDownloading(w) ==
    /\ pc[w] = "filtered"
    /\ Len(tracks[w]) > 0
    /\ Update(pid[w], [total_tracks |-> Len(tracks[w]), status |-> "downloading",
                       message |-> Msg("Downloading tracks", 0, Len(tracks[w]))])
    /\ Goto(w, "mkdir")
    /\ UNCHANGED <<callVars, now, active_downloads, album, pid, selected, tracks, i, done,
                   ret, cancelling, hist>>

\* lines 400-404: os.makedirs(album_dir) succeeds and the loop starts, or raises
W_MakeDir(w) ==
    /\ pc[w] = "mkdir"
    /\ \E ok \in BOOLEAN :
         IF ok
         THEN /\ i' = [i EXCEPT ![w] = 1]
              /\ done' = [done EXCEPT ![w] = 0]
              /\ Goto(w, "check")
              /\ hist' = [hist EXCEPT ![w].madedir = TRUE]
              /\ UNCHANGED <<download_progress, selected, tracks, ret>>
         ELSE Except(w)
    /\ UNCHANGED <<callVars, now, active_downloads, album, pid, cancelling>>

\* lines 406-407: the per-track cancellation check
W_LoopCheck(w) ==
    /\ pc[w] = "check"
    /\ IF pid[w] \notin active_downloads
       THEN Goto(w, "after")
       ELSE Goto(w, "update")
    /\ UNCHANGED <<callVars, now, download_progress, active_downloads, album, pid, selected,
                   tracks, i, done, ret, cancelling, hist>>

\* variant: enumerate(tracks) without the start value 1
W_Update_ZeroBased(w) ==
    /\ pc[w] = "update"
    /\ Update(pid[w], [current_track |-> i[w] - 1, current_file |-> tracks[w][i[w]].name,
                       message |-> Msg("Downloading", i[w], Len(tracks[w]))])
    /\ hist' = [hist EXCEPT ![w].begun = Append(@, tracks[w][i[w]].number)]
    /\ Goto(w, "track")
    /\ UNCHANGED <<callVars, now, active_downloads, album, pid, selected, tracks, i, done,
                   ret, cancelling>>

\* lines 408-416: report the track and hand it to download_track
W_Update(w) ==
    /\ pc[w] = "update"
    /\ Update(pid[w], [current_track |-> i[w], current_file |-> tracks[w][i[w]].name,
                       message |-> Msg("Downloading", i[w], Len(tracks[w]))])
    /\ hist' = [hist EXCEPT ![w].begun = Append(@, tracks[w][i[w]].number)]
    /\ Goto(w, "track")
    /\ UNCHANGED <<callVars, now, active_downloads, album, pid, selected, tracks, i, done,
                   ret, cancelling>>

\* what one download_track call may come to
Outcomes == {"saved", "no_link", "fetch_failed", "write_failed", "too_small"}

\* variant: the size of the written file is not looked at
download_track_AnySize(outcome) == outcome \in {"saved", "too_small"}

\* download_track: True only when the file was written and exceeds 1000 bytes
download_track(outcome) == outcome = "saved"

\* variant: the loop is left after the first track handled
NextTrack_Break(w) ==
    /\ Goto(w, "after")
    /\ UNCHANGED i

\* variant: the loop index is not advanced
NextTrack_Repeat(w) ==
    /\ Goto(w, "check")
    /\ UNCHANGED i

\* the for statement takes the next track, or leaves the loop
NextTrack(w) ==
    IF i[w] < Len(tracks[w])
    THEN /\ i' = [i EXCEPT ![w] = @ + 1]
         /\ Goto(w, "check")
    ELSE /\ Goto(w, "after")
         /\ UNCHANGED i

\* lines 416-418: download_track returns, a success is counted, the thread
\* sleeps and the loop goes on
W_DownloadTrack(w) ==
    /\ pc[w] = "track"
    /\ \E outcome \in Outcomes :
         /\ done' = [done EXCEPT ![w] = IF download_track(outcome) THEN @ + 1 ELSE @]
         /\ hist' = [hist EXCEPT ![w].finished = @ + 1,
                                 ![w].saved = IF outcome = "saved" THEN @ + 1 ELSE @,
                                 ![w].failed = IF outcome = "saved" THEN @
                                               ELSE @ \cup {tracks[w][i[w]].number}]
    /\ NextTrack(w)
    /\ UNCHANGED <<callVars, now, download_progress, active_downloads, album, pid, selected,
                   tracks, ret, cancelling>>

\* variant: a worker that finds its id removed goes back to the loop's check
W_FinalCheck_Retry(w) ==
    /\ pc[w] = "after"
    /\ IF pid[w] \in active_downloads
       THEN Goto(w, "complete")
       ELSE Goto(w, "check")
    /\ UNCHANGED <<callVars, now, download_progress, active_downloads, album, pid, selected,
                   tracks, i, done, ret, cancelling, hist>>

\* line 421: if progress_id in active_downloads
W_FinalCheck(w) ==
    /\ pc[w] = "after"
    /\ IF pid[w] \in active_downloads
       THEN Goto(w, "complete")
       ELSE Goto(w, "cancelled")
    /\ UNCHANGED <<callVars, now, download_progress, active_downloads, album, pid, selected,
                   tracks, i, done, ret, cancelling, hist>>

\* variant: return done >= 0
ReturnValue_NonNegative(n) == IF n >= 0 THEN "true" ELSE "false"

\* line 428: return done > 0
ReturnValue(n) == IF n > 0 THEN "true" ELSE "false"

\* variant: the finished session is taken out of the active set
W_Completed_Evict(w) ==
    /\ pc[w] = "complete"
    /\ Update(pid[w], [status |-> "completed", current_track |-> done[w],
                       message |-> Msg("Downloaded", done[w], Len(tracks[w]))])
    /\ Return(w, ReturnValue(done[w]))
    /\ hist' = [hist EXCEPT ![w] = NoHist]
    /\ active_downloads' = active_downloads \ {pid[w]}
    /\ UNCHANGED <<callVars, now, album, pid, cancelling>>

\* lines 422-425 and 428: report completion and return
W_Completed(w) ==
    /\ pc[w] = "complete"
    /\ Update(pid[w], [status |-> "completed", current_track |-> done[w],
                       message |-> Msg("Downloaded", done[w], Len(tracks[w]))])
    /\ Return(w, ReturnValue(done[w]))
    /\ hist' = [hist EXCEPT ![w] = NoHist]
    /\ UNCHANGED <<callVars, now, active_downloads, album, pid, cancelling>>

\* lines 427-428: report the cancellation and return
W_Cancelled(w) ==
    /\ pc[w] = "cancelled"
    /\ Update(pid[w], [status |-> "cancelled", message |-> Msg("Download cancelled", 0, 0)])
    /\ Return(w, ReturnValue(done[w]))
    /\ hist' = [hist EXCEPT ![w] = NoHist]
    /\ UNCHANGED <<callVars, now, active_downloads, album, pid, cancelling>>

\* ------------------------------------------------- POST /cancel/<id>
\* worker positions inside one iteration of the track loop
InTrack == {"update", "track"}

\* line 1914: if progress_id in active_downloads (otherwise answer 404)
CancelCheck(h, id) ==
    /\ cancelling[h].pc = "idle"
    /\ \A g \in Handlers : g < h => cancelling[g].pc # "idle"
    /\ IF id \in active_downloads
       THEN cancelling' = [cancelling EXCEPT ![h] = [pc |-> "del", id |-> id]]
       ELSE UNCHANGED cancelling
    /\ UNCHANGED <<callVars, now, download_progress, active_downloads, album, workerVars, hist>>

\* variant: the cancel request empties the active set
CancelDel_ClearAll(h) ==
    /\ cancelling[h].pc = "del"
    /\ LET id == cancelling[h].id IN
       IF id \in active_downloads
       THEN /\ active_downloads' = {}
            /\ cancelling' = [cancelling EXCEPT ![h].pc = "update"]
            /\ hist' = [w \in Workers |->
                 IF w \in SameId(id)
                 THEN [hist[w] EXCEPT
                         !.acked = IF /\ pc[w] \in InTrack
                                      /\ download_progress[id].status = "downloading"
                                   THEN "track"
                                   ELSE IF @ = "no" /\ pc[w] # "returned" THEN "other" ELSE @]
                 ELSE hist[w]]
       ELSE /\ cancelling' = [cancelling EXCEPT ![h] = IdleHandler]
            /\ UNCHANGED <<active_downloads, hist>>
    /\ UNCHANGED <<callVars, now, download_progress, album, workerVars>>

\* line 1915: del active_downloads[progress_id]; KeyError (answer 500) when
\* another request removed the key after the check
CancelDel(h) ==
    /\ cancelling[h].pc = "del"
    /\ LET id == cancelling[h].id IN
       IF id \in active_downloads
       THEN /\ active_downloads' = active_downloads \ {id}
            /\ cancelling' = [cancelling EXCEPT ![h].pc = "update"]
            /\ hist' = [w \in Workers |->
                 IF w \in SameId(id)
                 THEN [hist[w] EXCEPT
                         !.acked = IF /\ pc[w] \in InTrack
                                      /\ download_progress[id].status = "downloading"
                                   THEN "track"
                                   ELSE IF @ = "no" /\ pc[w] # "returned" THEN "other" ELSE @]
                 ELSE hist[w]]
       ELSE /\ cancelling' = [cancelling EXCEPT ![h] = IdleHandler]
            /\ UNCHANGED <<active_downloads, hist>>
    /\ UNCHANGED <<callVars, now, download_progress, album, workerVars>>

\* lines 1916-1918: mark the record cancelled when there is one, answer 200
CancelUpdate(h) ==
    /\ cancelling[h].pc = "update"
    /\ LET id == cancelling[h].id IN
       IF id \in DOMAIN download_progress
       THEN Update(id, [status |-> "cancelled", message |-> Msg("Download cancelled", 0, 0)])
       ELSE UNCHANGED download_progress
    /\ cancelling' = [cancelling EXCEPT ![h] = IdleHandler]
    /\ UNCHANGED <<callVars, now, active_downloads, album, workerVars, hist>>

\* ------------------------------------------------------- specification
\* downloads side by side, with one /cancel request in progress at a time
FirstHandler == {1}

Next ==
    \/ Tick
    \/ \E w \in Workers, sel \in Selections : start_download(w, sel)
    \/ \E id \in Ids : Poll(id)
    \/ \E h \in FirstHandler, id \in Ids : CancelCheck(h, id)
    \/ \E h \in FirstHandler : CancelDel(h)
    \/ \E h \in FirstHandler : CancelUpdate(h)
    \/ \E w \in Workers : W_Register(w)
    \/ \E w \in Workers : W_AlbumNotFound(w)
    \/ \E w \in Workers : W_Filter(w)
    \/ \E w \in Workers : W_NoTracks(w)
    \/ \E w \in Workers : W_SetDownloading(w)
    \/ \E w \in Workers : W_MakeDir(w)
    \/ \E w \in Workers : W_LoopCheck(w)
    \/ \E w \in Workers : W_Update(w)
    \/ \E w \in Workers : W_DownloadTrack(w)
    \/ \E w \in Workers : W_FinalCheck(w)
    \/ \E w \in Workers : W_Completed(w)
    \/ \E w \in Workers : W_Cancelled(w)

Spec == Init /\ [][Next]_vars

\* one download request, followed from its acceptance to the worker's return,
\* with polls and concurrent cancel requests arriving at any point
FirstWorker == {1}

NextSession ==
    \/ Tick
    \/ \E w \in FirstWorker, sel \in Selections : start_download(w, sel)
    \/ \E id \in Ids : Poll(id)
    \/ \E h \in Handlers, id \in Ids : CancelCheck(h, id)
    \/ \E h \in Handlers : CancelDel(h)
    \/ \E h \in Handlers : CancelUpdate(h)
    \/ \E w \in FirstWorker : W_Register(w)
    \/ \E w \in FirstWorker : W_AlbumNotFound(w)
    \/ \E w \in FirstWorker : W_Filter(w)
    \/ \E w \in FirstWorker : W_NoTracks(w)
    \/ \E w \in FirstWorker : W_SetDownloading(w)
    \/ \E w \in FirstWorker : W_MakeDir(w)
    \/ \E w \in FirstWorker : W_LoopCheck(w)
    \/ \E w \in FirstWorker : W_Update(w)
    \/ \E w \in FirstWorker : W_DownloadTrack(w)
    \/ \E w \in FirstWorker : W_FinalCheck(w)
    \/ \E w \in FirstWorker : W_Completed(w)
    \/ \E w \in FirstWorker : W_Cancelled(w)

SpecSession == InitSession /\ [][NextSession]_vars

\* the worker thread's next step, whichever it is
WorkerStep(w) ==
    \/ W_Register(w)
    \/ W_AlbumNotFound(w)
    \/ W_Filter(w)
    \/ W_NoTracks(w)
    \/ W_SetDownloading(w)
    \/ W_MakeDir(w)
    \/ W_LoopCheck(w)
    \/ W_Update(w)
    \/ W_DownloadTrack(w)
    \/ W_FinalCheck(w)
    \/ W_Completed(w)
    \/ W_Cancelled(w)

NextFair ==
    \/ Tick
    \/ \E w \in FirstWorker, sel \in Selections : start_download(w, sel)
    \/ \E id \in Ids : Poll(id)
    \/ \E h \in FirstHandler, id \in Ids : CancelCheck(h, id)
    \/ \E h \in FirstHandler : CancelDel(h)
    \/ \E h \in FirstHandler : CancelUpdate(h)
    \/ \E w \in FirstWorker : WorkerStep(w)

\* one download whose thread, once started, is scheduled again and again and
\* whose every fetch, sleep and file write comes to an end; requests arrive
\* or not, as clients please
SpecFair ==
    /\ Init
    /\ [][NextFair]_vars
    /\ \A w \in FirstWorker : WF_vars(WorkerStep(w))

\* two downloads of whole albums side by side, with cancel requests
MaxPairTracks == 1

BothWorkers == {1, 2}

InitPair == InitWith(SeqsUpTo(MaxPairTracks))

NextPair ==
    \/ Tick
    \/ \E w \in BothWorkers : start_download(w, NoSelection)
    \/ \E id \in Ids : Poll(id)
    \/ \E h \in FirstHandler, id \in Ids : CancelCheck(h, id)
    \/ \E h \in FirstHandler : CancelDel(h)
    \/ \E h \in FirstHandler : CancelUpdate(h)
    \/ \E w \in BothWorkers : WorkerStep(w)

SpecPair == InitPair /\ [][NextPair]_vars

TypeOK ==
    /\ now \in 0..MaxClock
    /\ active_downloads \subseteq Ids
    /\ DOMAIN download_progress \subseteq Ids
    /\ \A w \in Workers : i[w] \in 0..MaxTracks /\ done[w] \in 0..MaxTracks

\* ---------------------------------------------- _get_with_retry (70-85)
sessionVars ==
    <<now, download_progress, active_downloads, album, workerVars, cancelling, hist>>

MaxRetries == 3

Statuses == {200, 403, 404, 500}

\* what one session.get can end in: a response with a status, or a
\* requests.RequestException raised by the transport
Responses == [kind : {"response"}, status : Statuses]

NetworkErrors == [kind : {"ConnectionError", "Timeout"}, status : {0}]

GetOutcomes == Responses \cup NetworkErrors

Forbidden(o) == o.kind = "response" /\ o.status = 403

\* raise_for_status raises requests.HTTPError, a RequestException, for 4xx/5xx
RaisesForStatus(o) == o.kind = "response" /\ o.status >= 400

FetchRequests == [op : {"fetch"}, max_retries : 1..MaxRetries]

\* line 71: the loop is entered with attempt 0
FetchBegin ==
    /\ req.op = "fetch"
    /\ run.op = "none"
    /\ run' = [op |-> "fetch", attempt |-> 0, log |-> <<>>]
    /\ UNCHANGED <<req, out, sessionVars>>

\* line 77: a forbidden answer is waited out while attempts remain
Continues_Always(o, attempt, max_retries) == Forbidden(o)

Continues(o, attempt, max_retries) == Forbidden(o) /\ attempt < max_retries - 1

\* lines 72-85: one pass of the loop body with the request ending in o; a
\* pass that goes round with no attempt left falls out of the loop to the
\* return None of line 85
FetchAttempt(o) ==
    /\ run.op = "fetch"
    /\ out.op = "none"
    /\ run.attempt < req.max_retries
    /\ LET log == Append(run.log, o)
           last == run.attempt = req.max_retries - 1
       IN  IF Continues(o, run.attempt, req.max_retries)
           THEN /\ run' = [run EXCEPT !.attempt = @ + 1, !.log = log]
                /\ IF last
                   THEN out' = [op |-> "return", value |-> "None"]
                   ELSE UNCHANGED out
           ELSE IF o.kind = "response" /\ ~RaisesForStatus(o)
           THEN /\ run' = [run EXCEPT !.log = log]
                /\ out' = [op |-> "return", value |-> "response"]
           ELSE IF last
           THEN /\ run' = [run EXCEPT !.log = log]
                /\ out' = [op |-> "raise", value |-> o.kind]
           ELSE /\ run' = [run EXCEPT !.attempt = @ + 1, !.log = log]
                /\ UNCHANGED out
    /\ UNCHANGED <<req, sessionVars>>

InitFetch == InitCall(FetchRequests)

NextFetch ==
    \/ FetchBegin
    \/ \E o \in GetOutcomes : FetchAttempt(o)

SpecFetch == InitFetch /\ [][NextFetch]_vars

\* ------------------------- search (app.py 87-139, main.py 75-132)
MaxRows == 22

MaxResults == 20

\* results[:cap] of a list of n entries, as its length
Slice_Whole(n, cap) == n

Slice(n, cap) == IF n < cap THEN n ELSE cap

\* "app" is FixedKHInsiderDownloader.search, "main" KHInsiderDownloader.search
SearchRequests == [op : {"search"}, variant : {"app", "main"}]

\* a row of the album table: with a th cell, without an album link, with a
\* link whose text is empty, of one or two characters, or longer
RowKinds == {"th", "nolink", "noname", "short", "ok"}

\* an album anchor anywhere in the page, by the length of its text
AnchorKinds == {"noname", "short", "ok"}

\* app.py 102-118 / main.py 92-122: does the row add a result
RowAccepted(variant, kind) ==
    IF variant = "app" THEN kind \in {"short", "ok"} ELSE kind = "ok"

Returned(n) == [op |-> "return", size |-> n]

\* app.py 91-100 / main.py 82-90: the page is fetched and the table looked
\* up; any exception of the fetch ends in the except clause, which returns []
SearchFetch(fetched, hasTable) ==
    /\ req.op = "search"
    /\ run.op = "none"
    /\ run' = [op |-> "search", fetched |-> fetched, rows |-> 0, results |-> 0,
               phase |-> IF hasTable THEN "table" ELSE "fallback"]
    /\ out' = IF fetched = "raise" \/ (~hasTable /\ req.variant = "main")
              THEN Returned(0)
              ELSE out
    /\ UNCHANGED <<req, sessionVars>>

\* app.py 101-118 / main.py 91-125: one row of the table
SearchRow(kind) ==
    /\ run.op = "search" /\ out.op = "none" /\ run.phase = "table"
    /\ run.rows < MaxRows
    /\ LET n == IF RowAccepted(req.variant, kind) THEN run.results + 1 ELSE run.results
       IN  /\ run' = [run EXCEPT !.rows = @ + 1, !.results = n]
           /\ out' = IF req.variant = "main" /\ kind \notin {"th", "nolink"} /\ n >= MaxResults
                     THEN Returned(Slice(n, MaxResults))
                     ELSE out
    /\ UNCHANGED <<req, sessionVars>>

\* app.py 120, 137 / main.py 128: the rows are used up
SearchRowsDone ==
    /\ run.op = "search" /\ out.op = "none" /\ run.phase = "table"
    /\ IF req.variant = "app" /\ run.results = 0
       THEN /\ run' = [run EXCEPT !.phase = "fallback", !.rows = 0]
            /\ UNCHANGED out
       ELSE /\ out' = Returned(Slice(run.results, MaxResults))
            /\ UNCHANGED run
    /\ UNCHANGED <<req, sessionVars>>

\* app.py 121-135: one album anchor of the whole-page scan
SearchAnchor(kind) ==
    /\ run.op = "search" /\ out.op = "none" /\ run.phase = "fallback"
    /\ run.rows < MaxRows
    /\ run' = [run EXCEPT !.rows = @ + 1,
                          !.results = IF kind = "ok" THEN @ + 1 ELSE @]
    /\ UNCHANGED <<req, out, sessionVars>>

\* app.py 137: the anchors are used up
SearchAnchorsDone ==
    /\ run.op = "search" /\ out.op = "none" /\ run.phase = "fallback"
    /\ out' = Returned(Slice(run.results, MaxResults))
    /\ UNCHANGED <<req, run, sessionVars>>

InitSearch == InitCall(SearchRequests)

NextSearch ==
    \/ \E fetched \in {"response", "raise"}, hasTable \in BOOLEAN :
         SearchFetch(fetched, hasTable)
    \/ \E kind \in RowKinds : SearchRow(kind)
    \/ SearchRowsDone
    \/ \E kind \in AnchorKinds : SearchAnchor(kind)
    \/ SearchAnchorsDone

SpecSearch == InitSearch /\ [][NextSearch]_vars

\* ------- _extract_tracks_from_table (app.py 298-321, main.py 162-188)
MaxTableRows == 3

\* a tr of the songlist table: its id attribute, and how far it gets through
\* the tests of the loop body (no td.clickable-row, no a[href] in the cell,
\* empty link text, empty href, or a track row)
TableRows ==
    [id : {"songlist_header", "songlist_footer", "none"},
     kind : {"nocell", "nolink", "noname", "nohref", "track"}]

RECURSIVE TablesUpTo(_)
TablesUpTo(n) ==
    IF n = 0 THEN {<<>>}
    ELSE LET shorter == TablesUpTo(n - 1)
         IN  shorter \cup {Append(t, r) : t \in {u \in shorter : Len(u) = n - 1},
                                          r \in TableRows}

ExtractRequests == [op : {"extract"}, variant : {"app", "main"}, rows : TablesUpTo(MaxTableRows)]

\* app.py 306-320: the row passes every test (main.py has no test of the id)
Accepted(variant, row) ==
    /\ variant = "app" => row.id \notin {"songlist_header", "songlist_footer"}
    /\ row.kind = "track"

\* app.py 321 (n += 1 inside the if) / main.py 188
NextNumber_EveryRow(n, accepted) == n + 1

NextNumber(n, accepted) == IF accepted THEN n + 1 ELSE n

\* the loop of lines 305-321 over the remaining rows, with the counter n and
\* the list built so far; a track keeps the position of its row in the table
RECURSIVE ExtractLoop(_, _, _, _, _)
ExtractLoop(rows, variant, k, n, acc) ==
    IF k > Len(rows) THEN acc
    ELSE LET accepted == Accepted(variant, rows[k])
         IN  ExtractLoop(rows, variant, k + 1, NextNumber(n, accepted),
                         IF accepted THEN Append(acc, [number |-> n, row |-> k]) ELSE acc)

extract_tracks_from_table(rows, variant) == ExtractLoop(rows, variant, 1, 1, <<>>)

ExtractCall ==
    /\ req.op = "extract"
    /\ out.op = "none"
    /\ out' = [op |-> "return", tracks |-> extract_tracks_from_table(req.rows, req.variant)]
    /\ UNCHANGED <<req, run, sessionVars>>

InitExtract == InitCall(ExtractRequests)

NextExtract == ExtractCall

SpecExtract == InitExtract /\ [][NextExtract]_vars

\* ------------------------------------- get_download_link (app.py 323-349)
MaxAudio == 2

MaxAnchors == 2

\* an audio element, with or without a src attribute
AudioKinds == {"src", "nosrc"}

\* an a[href]: whether it carries class songDownloadLink, whether its href
\* contains vgmsite.com, and whether its lowercased href contains one of
\* .mp3 .flac .ogg .wav at its end, elsewhere ("inside", as in
\* /song.mp3?dl=1), or nowhere
Anchors == [marker : BOOLEAN, host : BOOLEAN, ext : {"end", "inside", "none"}]

RECURSIVE ListsUpTo(_, _)
ListsUpTo(S, n) ==
    IF n = 0 THEN {<<>>}
    ELSE LET shorter == ListsUpTo(S, n - 1)
         IN  shorter \cup {Append(t, x) : t \in {u \in shorter : Len(u) = n - 1}, x \in S}

\* the track page as get_download_link reads it, in document order
TrackPages == [audio : ListsUpTo(AudioKinds, MaxAudio), anchors : ListsUpTo(Anchors, MaxAnchors)]

ResolveRequests == [op : {"resolve"}, fetched : {"response", "raise"}, page : TrackPages]

\* the first position of a sequence that is in the set K, 0 when K is empty
FirstOf(K) == IF K = {} THEN 0 ELSE CHOOSE k \in K : \A j \in K : k <= j

Chosen(level, index) == [level |-> level, index |-> index]

Nothing == Chosen(0, 0)

get_download_link_HostFirst(page) ==
    LET a == page.anchors
        marked == FirstOf({k \in 1..Len(a) : a[k].marker})
        hosted == FirstOf({k \in 1..Len(a) : a[k].host})
        ext == FirstOf({k \in 1..Len(a) : a[k].ext # "none"})
    IN  IF page.audio # <<>> /\ page.audio[1] = "src" THEN Chosen(1, 1)
        ELSE IF hosted # 0 THEN Chosen(3, hosted)
        ELSE IF marked # 0 THEN Chosen(2, marked)
        ELSE IF ext # 0 THEN Chosen(4, ext)
        ELSE Nothing

\* lines 330-347 on a fetched page: which element's URL is returned
get_download_link(page) ==
    LET a == page.anchors
        marked == FirstOf({k \in 1..Len(a) : a[k].marker})
        hosted == FirstOf({k \in 1..Len(a) : a[k].host})
        ext == FirstOf({k \in 1..Len(a) : a[k].ext # "none"})
    IN  IF page.audio # <<>> /\ page.audio[1] = "src" THEN Chosen(1, 1)
        ELSE IF marked # 0 THEN Chosen(2, marked)
        ELSE IF hosted # 0 THEN Chosen(3, hosted)
        ELSE IF ext # 0 THEN Chosen(4, ext)
        ELSE Nothing

\* lines 324-349: a failed fetch ends in the except clause, which returns None
ResolveCall ==
    /\ req.op = "resolve"
    /\ out.op = "none"
    /\ out' = [op |-> "return",
               link |-> IF req.fetched = "raise" THEN Nothing
                        ELSE get_download_link(req.page)]
    /\ UNCHANGED <<req, run, sessionVars>>

InitResolve == InitCall(ResolveRequests)

NextResolve == ResolveCall

SpecResolve == InitResolve /\ [][NextResolve]_vars

\* ------------------------- file names (app.py 414-415, 359-360)
MaxNameLen == 3

MaxNumber == 100

\* characters a track name is made of: a letter, a digit, a space, and the
\* three characters the file system objects to
Chars == {"a", "7", " ", ":", "/", "?"}

DigitChars == <<"0", "1", "2", "3", "4", "5", "6", "7", "8", "9">>

\* str.isalnum for the characters above
IsAlnum(c) == c \in {"a", "7"}

\* a track's name as extraction leaves it (get_text(strip=True), not empty)
TrackNames ==
    {t \in ListsUpTo(Chars, MaxNameLen) : t # <<>> /\ Head(t) # " " /\ t[Len(t)] # " "}

NameRequests == [op : {"filename"}, name : TrackNames, number : 1..MaxNumber]

\* line 414: the characters kept by the generator expression
RECURSIVE KeepSafe(_)
KeepSafe(name) ==
    IF name = <<>> THEN <<>>
    ELSE IF IsAlnum(Head(name)) \/ Head(name) \in {" ", "-", "_", "."}
         THEN <<Head(name)>> \o KeepSafe(Tail(name))
         ELSE KeepSafe(Tail(name))

\* str.strip: white space removed at both ends
RECURSIVE Strip(_)
Strip(t) ==
    IF t = <<>> THEN t
    ELSE IF Head(t) = " " THEN Strip(Tail(t))
    ELSE IF t[Len(t)] = " " THEN Strip(SubSeq(t, 1, Len(t) - 1))
    ELSE t

\* str(n) for n >= 0
RECURSIVE Decimal(_)
Decimal(n) ==
    IF n < 10 THEN <<DigitChars[n + 1]>>
    ELSE Append(Decimal(n \div 10), DigitChars[(n % 10) + 1])

\* line 415, the format spec 02d: zero-filled to a width of at least two
Format02d_Unpadded(n) == Decimal(n)

Format02d(n) == IF Len(Decimal(n)) < 2 THEN <<"0">> \o Decimal(n) ELSE Decimal(n)

\* lines 414-415 and 359-360: the name of the file that is written (no name
\* over this alphabet ends in .mp3 .flac .ogg or .wav, so .mp3 is appended)
FileName(name, number) ==
    Format02d(number) \o <<" ", "-", " ">> \o Strip(KeepSafe(name))
        \o <<".", "m", "p", "3">>

FileNameCall ==
    /\ req.op = "filename"
    /\ out.op = "none"
    /\ out' = [op |-> "return", filename |-> FileName(req.name, req.number)]
    /\ UNCHANGED <<req, run, sessionVars>>

InitFileName == InitCall(NameRequests)

NextFileName == FileNameCall

SpecFileName == InitFileName /\ [][NextFileName]_vars

\* ---------------------------------- home sections (app.py 152-245)
MaxItems == 2

MaxHomeAnchors == 3

\* an a[href] of the home page: the id its href gives ("none" when the href
\* has no first path segment, or is not an album link), whether it has text,
\* and whether it lies inside the block looked at (the popular-series
\* container, or the siblings between the matched heading and the next one)
HomeAnchors == [id : {"mario", "zelda", "none"}, named : BOOLEAN, inBlock : BOOLEAN]

HomeRequests ==
    [op : {"popular", "latest"}, max_items : 1..MaxItems, found : BOOLEAN,
     anchors : ListsUpTo(HomeAnchors, MaxHomeAnchors)]

\* lines 165-169 / make_item 181-203: the anchor gives an entry
MakesItem(a) == a.named /\ a.id # "none"

\* lines 163-173, and 224-227, 233-237: entries are appended in document
\* order until there are max_items of them; inBlock limits the scan
RECURSIVE Collect(_, _, _, _, _)
Collect(anchors, k, inBlock, max_items, items) ==
    IF k > Len(anchors) \/ Len(items) >= max_items THEN items
    ELSE Collect(anchors, k + 1, inBlock, max_items,
                 IF MakesItem(anchors[k]) /\ (inBlock => anchors[k].inBlock)
                 THEN Append(items, [id |-> anchors[k].id, pos |-> k])
                 ELSE items)

\* lines 239-244: dedupe by id, keep order
RECURSIVE Dedupe(_, _, _)
Dedupe(items, seen, kept) ==
    IF items = <<>> THEN kept
    ELSE IF Head(items).id \in seen THEN Dedupe(Tail(items), seen, kept)
    ELSE Dedupe(Tail(items), seen \cup {Head(items).id}, Append(kept, Head(items)))

\* lines 152-174
extract_popular_series(found, anchors, max_items) ==
    IF ~found THEN <<>> ELSE Collect(anchors, 1, TRUE, max_items, <<>>)

\* lines 206-245
extract_home_section(found, anchors, max_items) ==
    LET bounded == IF found THEN Collect(anchors, 1, TRUE, max_items, <<>>) ELSE <<>>
        items == IF bounded = <<>> THEN Collect(anchors, 1, FALSE, max_items, <<>>)
                 ELSE bounded
        kept == Dedupe(items, {}, <<>>)
    IN  SubSeq(kept, 1, IF Len(kept) < max_items THEN Len(kept) ELSE max_items)

HomeCall ==
    /\ req.op \in {"popular", "latest"}
    /\ out.op = "none"
    /\ out' = [op |-> "return",
               items |-> IF req.op = "popular"
                         THEN extract_popular_series(req.found, req.anchors, req.max_items)
                         ELSE extract_home_section(req.found, req.anchors, req.max_items)]
    /\ UNCHANGED <<req, run, sessionVars>>

InitHome == InitCall(HomeRequests)

NextHome == HomeCall

SpecHome == InitHome /\ [][NextHome]_vars

\* ------------------------------------------ /stream (app.py 1935-1978)
\* a header is absent or carries a value; a header sent with an empty value
\* is read as absent by the tests of lines 1947 and 1966
RangeValues == {"absent", "bytes=0-", "bytes=100-"}

ContentRangeValues == {"absent", "bytes 0-999/1000", "bytes 100-999/1000"}

AcceptRangesValues == {"absent", "none"}

StreamRequests == [op : {"stream"}, p : {"", "page"}, range : RangeValues]

\* what the origin answers to the GET of line 1951, or the exception it ends in
OriginAnswers ==
    [kind : {"response"}, status : {200, 206, 403, 404, 416, 500},
     content_range : ContentRangeValues, accept_ranges : AcceptRangesValues]
    \cup [kind : {"ConnectionError"}, status : {0},
          content_range : {"absent"}, accept_ranges : {"absent"}]

Answer(status, content_range, accept_ranges) ==
    [op |-> "return", status |-> status, content_range |-> content_range,
     accept_ranges |-> accept_ranges]

\* line 1953: mirror the origin's status when it is 200 or 206
RelayStatus_Mirror(status) == status

RelayStatus(status) == IF status \in {200, 206} THEN status ELSE 200

\* lines 1937-1949: the parameter is read, the link resolved and the headers
\* of the origin request are built
StreamResolve(resolved) ==
    /\ req.op = "stream"
    /\ run.op = "none" /\ out.op = "none"
    /\ IF req.p = ""
       THEN /\ out' = Answer(400, "absent", "absent")
            /\ UNCHANGED run
       ELSE IF ~resolved
       THEN /\ out' = Answer(404, "absent", "absent")
            /\ UNCHANGED run
       ELSE /\ run' = [op |-> "stream", forwarded |-> req.range,
                       origin |-> [kind |-> "none", status |-> 0,
                                   content_range |-> "absent", accept_ranges |-> "absent"]]
            /\ UNCHANGED out
    /\ UNCHANGED <<req, sessionVars>>

\* lines 1951-1978: the origin answers (or the GET raises) and the response
\* is built from it
StreamRelay(origin) ==
    /\ run.op = "stream" /\ out.op = "none"
    /\ run' = [run EXCEPT !.origin = origin]
    /\ out' = IF origin.kind # "response"
              THEN Answer(500, "absent", "absent")
              ELSE Answer(RelayStatus(origin.status), origin.content_range,
                          IF origin.accept_ranges = "absent" THEN "bytes"
                          ELSE origin.accept_ranges)
    /\ UNCHANGED <<req, sessionVars>>

InitStream == InitCall(StreamRequests)

NextStream ==
    \/ \E resolved \in BOOLEAN : StreamResolve(resolved)
    \/ \E origin \in OriginAnswers : StreamRelay(origin)

SpecStream == InitStream /\ [][NextStream]_vars

\* ------------------------------ normalize_output_path (app.py 14-38)
MaxParts == 2

\* Path.home() / "Downloads" / "GameSoundtracks", as the components of an
\* absolute path
DefaultDir == <<"home", "Downloads", "GameSoundtracks">>

\* the output_path of the request body: absent (None), a blank string, a
\* value that is not a string (a JSON number), or a path string given by
\* whether it is absolute and by its components
PathValues ==
    [kind : {"missing", "blank", "number"}, absolute : {FALSE}, parts : {<<>>}]
    \cup [kind : {"path"}, absolute : BOOLEAN,
          parts : ListsUpTo({"music", ".."}, MaxParts) \ {<<>>}]

\* what Path.mkdir(parents=True, exist_ok=True) on the destination ends in
MkdirOutcomes == {"ok", "PermissionError", "FileExistsError"}

PathRequests ==
    [op : {"path"}, user_value : PathValues, mkdir : MkdirOutcomes, default_ok : BOOLEAN]

\* Path.resolve() on an absolute path without symbolic links: ".." steps
\* back one component and stays at the root
RECURSIVE Resolve(_, _)
Resolve(parts, acc) ==
    IF parts = <<>> THEN acc
    ELSE IF Head(parts) = ".."
         THEN Resolve(Tail(parts), IF acc = <<>> THEN acc ELSE SubSeq(acc, 1, Len(acc) - 1))
         ELSE Resolve(Tail(parts), Append(acc, Head(parts)))

GivesPath(parts) == [op |-> "return", path |-> parts]

Raises(e) == [op |-> "raise", path |-> <<e>>]

\* lines 34-37: the exceptions of mkdir that the except clause catches
Caught_None(e) == FALSE

Caught(e) == e = "PermissionError"

\* lines 28-38; default_download_dir (14-26) raises when the default
\* directory cannot be made
normalize_output_path(v, mkdir, default_ok) ==
    IF v.kind \in {"missing", "blank"}
    THEN IF default_ok THEN GivesPath(DefaultDir) ELSE Raises("OSError")
    ELSE IF v.kind = "number" THEN Raises("TypeError")
    ELSE IF ~v.absolute /\ ~default_ok THEN Raises("OSError")
    ELSE LET p == IF v.absolute THEN v.parts ELSE DefaultDir \o v.parts
         IN  IF mkdir = "ok" THEN GivesPath(Resolve(p, <<>>))
             ELSE IF Caught(mkdir)
             THEN IF default_ok THEN GivesPath(Resolve(DefaultDir, <<>>))
                  ELSE Raises("OSError")
             ELSE Raises(mkdir)

PathCall ==
    /\ req.op = "path"
    /\ out.op = "none"
    /\ out' = normalize_output_path(req.user_value, req.mkdir, req.default_ok)
    /\ UNCHANGED <<req, run, sessionVars>>

InitPath == InitCall(PathRequests)

NextPath == PathCall

SpecPath == InitPath /\ [][NextPath]_vars

\* ------------------------------------------------------------- claims
Status(id) == download_progress[id].status

\* workers that were started (their id was handed to the caller of /download)
Started == {w \in Workers : pc[w] # "idle"}

\* C1: a session's status only moves forward, starting -> downloading ->
\* {completed, error, cancelled}: a terminal status never changes again and
\* downloading never goes back to starting.
C1_StatusOnlyForward ==
    [][\A id \in DOMAIN download_progress :
         /\ Status(id) \in Terminal => download_progress'[id].status = Status(id)
         /\ Status(id) = "downloading" => download_progress'[id].status # "starting"]_vars

\* C2: once a cancel is acknowledged while the session is downloading with a
\* track in progress, the worker passes no further per-track check (it starts
\* no later track) and the status it leaves on returning is cancelled.
C2_CancelStopsAfterCurrentTrack ==
    [][\A w \in Workers :
         hist[w].acked = "track" =>
           /\ ~(pc[w] = "check" /\ pc'[w] = "update")
           /\ (pc[w] # "returned" /\ pc'[w] = "returned"
                 => download_progress'[pid[w]].status = "cancelled")]_vars

\* C3: a cancel request that arrives when the session's status is already
\* completed, error or cancelled is not acknowledged (the handler does not go
\* on to remove the id and answer "cancelled").
C3_TerminalNotCancellable ==
    [][\A h \in Handlers :
         (cancelling[h].pc = "idle" /\ cancelling'[h].pc = "del")
           => ~(/\ cancelling'[h].id \in DOMAIN download_progress
                /\ Status(cancelling'[h].id) \in Terminal)]_vars

\* C4: any two accepted start-download requests have distinct session ids.
C4_SessionIdsDistinct ==
    \A v, w \in Started : v # w => pid[v] # pid[w]

\* C5: once /download has handed an id to its caller, a status query for that
\* id finds a record (never 404).
C5_RecordExistsOnceAccepted ==
    \A w \in Started : get_progress(pid[w]).code = 200

\* the step in which worker w returns
Returns(w) == pc[w] # "returned" /\ pc'[w] = "returned"

\* C6: in an uncancelled download a failed track never aborts the album: the
\* loop is left only when every selected track was attempted, and the worker
\* then reports completed with the number of files saved out of the number
\* selected.
C6_FailedTrackNeverAborts ==
    [][\A w \in Workers :
         hist[w].acked = "no" =>
           /\ (pc[w] = "check" /\ pc'[w] # "check" => pc'[w] = "update")
           /\ (pc[w] = "track" /\ pc'[w] = "after"
                 => hist'[w].finished = Len(tracks[w]))
           /\ (pc[w] = "after" /\ pc'[w] # "after" => pc'[w] = "complete")
           /\ (pc[w] = "complete" /\ Returns(w)
                 => /\ hist[w].finished = Len(tracks[w])
                    /\ download_progress'[pid[w]].status = "completed"
                    /\ download_progress'[pid[w]].current_track = hist[w].saved
                    /\ download_progress'[pid[w]].message
                         = Msg("Downloaded", hist[w].saved, Len(tracks[w])))]_vars

\* an uncancelled download of three tracks in which only track 2 failed is
\* about to report completed; the third track was attempted after the failure
C6_Witness ==
    \E w \in Workers :
        /\ pc[w] = "complete"
        /\ hist[w].acked = "no"
        /\ hist[w].begun = <<1, 2, 3>>
        /\ hist[w].failed = {2}
        /\ hist[w].saved = 2

\* C7: download_soundtrack returns true exactly when at least one track was
\* saved during the run, whichever way it returns.
C7_TrueIffTrackSaved ==
    [][\A w \in Workers :
         Returns(w) => (ret'[w] = "true" <=> hist[w].saved > 0)]_vars

\* a run that saved a track has returned true
C7_Witness ==
    \E w \in Workers :
        /\ pc[w] = "returned"
        /\ ret[w] = "true"
        /\ Status(pid[w]) = "completed"
        /\ download_progress[pid[w]].current_track >= 1

\* the tracks whose display name is a member of the given list
KeepMembers(all, names) == SelectSeq(all, LAMBDA t : t.name \in names)

\* C8: with selected_tracks null all tracks are taken; with any list,
\* the empty one included, exactly the tracks whose name is in the list.
C8_SelectionIsMembership ==
    [][\A w \in Workers :
         (pc[w] = "info" /\ pc'[w] = "filtered") =>
           /\ selected[w].kind = "null" => tracks'[w] = ExtractTracks(album)
           /\ selected[w].kind = "list"
                => tracks'[w] = KeepMembers(ExtractTracks(album), selected[w].names)]_vars

\* C9: the selected tracks are handed to download_track in strictly ascending
\* ordinal order, each at most once, and one is begun only when every earlier
\* one has finished.
C9_AscendingOneAtATime ==
    \A w \in Workers :
        LET b == hist[w].begun IN
        /\ \A k \in 1..(Len(b) - 1) : b[k] < b[k + 1]
        /\ \A k \in 1..Len(b) : b[k] = tracks[w][k].number
        /\ hist[w].finished \in {Len(b) - 1, Len(b)}
        /\ hist[w].finished = Len(b) - 1 <=> pc[w] = "track"

\* a worker has gone through the selected tracks 1 and 3 of a three-track
\* album, in that order
C9_Witness ==
    \E w \in Workers : hist[w].begun = <<1, 3>> /\ hist[w].finished = 2

\* C10: an exception raised inside download_soundtrack is caught: the step
\* that handles it sets the status to error with the failure message and the
\* function returns false.
C10_ExceptionRecordedAndFalse ==
    [][\A w \in Workers :
         (~hist[w].raised /\ hist'[w].raised) =>
           /\ Returns(w)
           /\ ret'[w] = "false"
           /\ download_progress'[pid[w]].status = "error"
           /\ download_progress'[pid[w]].message.kind = "Download failed"]_vars

\* a worker whose run raised has returned false and left status error
C10_Witness ==
    \E w \in Workers :
        /\ hist[w].raised
        /\ ret[w] = "false"
        /\ Status(pid[w]) = "error"
        /\ download_progress[pid[w]].message.kind = "Download failed"

\* C19: /cancel answers acknowledged or not-found and nothing else: a request
\* that found its id in the active set at line 1914 goes on to remove exactly
\* that id and to acknowledge; it never ends in another answer (the KeyError
\* of line 1915, answered 500).
C19_CancelAcknowledgedOrNotFound ==
    [][\A h \in Handlers :
         (cancelling[h].pc = "del" /\ cancelling'[h].pc # "del")
           => /\ cancelling[h].id \in active_downloads
              /\ active_downloads' = active_downloads \ {cancelling[h].id}
              /\ cancelling'[h].pc = "update"]_vars

\* C13: in _get_with_retry an attempt answered with an error status other
\* than 403 (404, 500) raises on that attempt, so no further request follows;
\* only 403 and network errors lead to another attempt.
C13_OtherErrorStatusRaisesAtOnce ==
    [][(run.op = "fetch" /\ run'.op = "fetch" /\ Len(run'.log) > Len(run.log))
         => LET o == run'.log[Len(run'.log)] IN
            (RaisesForStatus(o) /\ ~Forbidden(o)) => out'.op = "raise"]_vars

\* the requests of a call that has ended
Ended == run.op = "fetch" /\ out.op # "none"

\* C14: _get_with_retry with max_retries >= 1 issues at most max_retries
\* requests; what it returns is the first response with a success status
\* (never a 403 response, never None); and when every attempt ended in a
\* network error or a 403 it raises.
C14_FetchBudgetAndResult ==
    run.op = "fetch" =>
      /\ Len(run.log) <= req.max_retries
      /\ (out.op = "return") =>
           /\ out.value = "response"
           /\ Len(run.log) >= 1
           /\ ~RaisesForStatus(run.log[Len(run.log)])
           /\ run.log[Len(run.log)].kind = "response"
           /\ \A j \in 1..(Len(run.log) - 1) :
                run.log[j].kind # "response" \/ RaisesForStatus(run.log[j])
      /\ (Ended /\ \A j \in 1..Len(run.log) :
                     run.log[j] \in NetworkErrors \/ Forbidden(run.log[j]))
           => out.op = "raise"

\* three attempts, 403 then a timeout then 403 again: the call raised
C14_Witness ==
    /\ Ended
    /\ req.max_retries = 3
    /\ Len(run.log) = 3
    /\ Forbidden(run.log[1])
    /\ run.log[2].kind = "Timeout"
    /\ Forbidden(run.log[3])
    /\ out.op = "raise"

\* C11: search always returns a list, of at most 20 results, and the list is
\* empty when the fetch of the result page failed.
C11_SearchAtMostTwentyNeverRaises ==
    (run.op = "search" /\ out.op # "none") =>
      /\ out.op = "return"
      /\ out.size <= 20
      /\ run.fetched = "raise" => out.size = 0

\* the page held more than 20 acceptable rows and 20 were returned
C11_Witness ==
    /\ run.op = "search"
    /\ req.variant = "app"
    /\ run.results > 20
    /\ out.op = "return"
    /\ out.size = 20

\* C12: the extracted track list is numbered 1, 2, 3, ... in list order:
\* tracks[i].number = i + 1 (indices from 0), whatever rows were skipped.
C12_TrackNumbersContiguous ==
    (req.op = "extract" /\ out.op = "return") =>
      \A k \in 1..Len(out.tracks) : out.tracks[k].number = k

\* a header row and a row without a name were skipped between accepted rows
C12_Witness ==
    /\ req.op = "extract" /\ out.op = "return"
    /\ req.variant = "app"
    /\ Len(req.rows) = 3
    /\ req.rows[1].id = "songlist_header"
    /\ req.rows[2] = [id |-> "none", kind |-> "track"]
    /\ req.rows[3] = [id |-> "none", kind |-> "track"]
    /\ Len(out.tracks) = 2
    /\ out.tracks[2].row = 3

\* the positions of a fetched page that match a priority level as the claim
\* words the levels: any audio element with a src, an anchor with the marker
\* class, an anchor whose href contains the media host, an anchor whose href
\* ends in an audio extension
ClaimedMatches(page, level) ==
    CASE level = 1 -> {k \in 1..Len(page.audio) : page.audio[k] = "src"}
      [] level = 2 -> {k \in 1..Len(page.anchors) : page.anchors[k].marker}
      [] level = 3 -> {k \in 1..Len(page.anchors) : page.anchors[k].host}
      [] level = 4 -> {k \in 1..Len(page.anchors) : page.anchors[k].ext = "end"}

\* the same with level 1 read as the first audio element only, and level 4
\* as an href that contains an audio extension anywhere, in any letter case
AmendedMatches(page, level) ==
    CASE level = 1 -> {k \in {1} : page.audio # <<>> /\ page.audio[1] = "src"}
      [] level = 2 -> {k \in 1..Len(page.anchors) : page.anchors[k].marker}
      [] level = 3 -> {k \in 1..Len(page.anchors) : page.anchors[k].host}
      [] level = 4 -> {k \in 1..Len(page.anchors) : page.anchors[k].ext # "none"}

Resolved == req.op = "resolve" /\ req.fetched = "response" /\ out.op = "return"

\* C15: on a fetched track page the link returned is the first match of the
\* highest-priority level that has a match, and nothing is returned exactly
\* when no level has one (levels as the claim words them).
C15_StrictPriority ==
    Resolved =>
      /\ out.link = Nothing <=> \A l \in 1..4 : ClaimedMatches(req.page, l) = {}
      /\ out.link # Nothing =>
           /\ out.link.index \in ClaimedMatches(req.page, out.link.level)
           /\ \A k \in ClaimedMatches(req.page, out.link.level) : out.link.index <= k
           /\ \A l \in 1..(out.link.level - 1) : ClaimedMatches(req.page, l) = {}

\* C15 as amended: the same priority rule with level 1 the first audio
\* element's src and level 4 an href containing an audio extension.
C15_StrictPriorityAmended ==
    Resolved =>
      /\ out.link = Nothing <=> \A l \in 1..4 : AmendedMatches(req.page, l) = {}
      /\ out.link # Nothing =>
           /\ out.link.index \in AmendedMatches(req.page, out.link.level)
           /\ \A k \in AmendedMatches(req.page, out.link.level) : out.link.index <= k
           /\ \A l \in 1..(out.link.level - 1) : AmendedMatches(req.page, l) = {}

\* no audio src; the first anchor only has an extension, the second has the
\* marker class and the media host: the second anchor is returned at level 2
C15_Witness ==
    /\ Resolved
    /\ req.page.audio = <<"nosrc">>
    /\ Len(req.page.anchors) = 2
    /\ req.page.anchors[1] = [marker |-> FALSE, host |-> FALSE, ext |-> "end"]
    /\ req.page.anchors[2] = [marker |-> TRUE, host |-> TRUE, ext |-> "none"]
    /\ out.link = Chosen(2, 2)

\* the number of digits a file name starts with
RECURSIVE LeadingDigits(_)
LeadingDigits(f) ==
    IF f = <<>> \/ Head(f) \notin {DigitChars[d] : d \in 1..10} THEN 0
    ELSE 1 + LeadingDigits(Tail(f))

Named == req.op = "filename" /\ out.op = "return"

NoUnsafeChar == \A k \in 1..Len(out.filename) : out.filename[k] \notin {":", "/", "?"}

\* C16: the file name contains none of ':', '/', '?' and its ordinal prefix
\* is exactly two digits.
C16_SafeNameTwoDigitPrefix ==
    Named => NoUnsafeChar /\ LeadingDigits(out.filename) = 2

\* C16 as amended: none of ':', '/', '?'; the prefix is the ordinal in
\* decimal, zero-padded to at least two digits: exactly two for ordinals up
\* to 99, and as many as the ordinal has from 100 on.
C16_SafeNamePaddedPrefix ==
    Named =>
      /\ NoUnsafeChar
      /\ LeadingDigits(out.filename) >= 2
      /\ req.number <= 99 <=> LeadingDigits(out.filename) = 2
      /\ req.number < 10 =>
           /\ out.filename[1] = "0"
           /\ out.filename[2] = DigitChars[req.number + 1]

\* track 7 named "a :" is written as 07 - a.mp3
C16_Witness ==
    /\ Named
    /\ req.number = 7
    /\ req.name = <<"a", " ", ":">>
    /\ out.filename = <<"0", "7", " ", "-", " ", "a", ".", "m", "p", "3">>

\* C17: each home-page section returns at most max_items entries, no two of
\* them with the same id, in the order the entries appear in the document.
C17_HomeSectionsCappedUniqueOrdered ==
    (req.op \in {"popular", "latest"} /\ out.op = "return") =>
      /\ Len(out.items) <= req.max_items
      /\ \A j, k \in 1..Len(out.items) :
           /\ j # k => out.items[j].id # out.items[k].id
           /\ j < k => out.items[j].pos < out.items[k].pos

\* C18: once the link is resolved and the origin has answered, /stream
\* answers 206 with the origin's Content-Range when the origin answered 206,
\* 200 when it answered 200, and 200 for any other origin status; and a
\* Range header of the request went to the origin unchanged.
C18_StreamRelaysOnly200Or206 ==
    (run.op = "stream" /\ out.op = "return" /\ run.origin.kind = "response") =>
      /\ out.status \in {200, 206}
      /\ run.origin.status = 206 =>
           out.status = 206 /\ out.content_range = run.origin.content_range
      /\ run.origin.status = 200 => out.status = 200
      /\ run.origin.status \notin {200, 206} => out.status = 200
      /\ req.range # "absent" => run.forwarded = req.range

\* Range: bytes=100- answered 206 with bytes 100-999/1000, relayed as such
C18_Witness ==
    /\ run.op = "stream" /\ out.op = "return"
    /\ req.range = "bytes=100-"
    /\ run.forwarded = "bytes=100-"
    /\ run.origin.kind = "response"
    /\ run.origin.status = 206
    /\ run.origin.content_range = "bytes 100-999/1000"
    /\ out.status = 206
    /\ out.content_range = "bytes 100-999/1000"

\* a is a prefix of b
IsPrefix(a, b) == Len(a) <= Len(b) /\ SubSeq(b, 1, Len(a)) = a

\* normalize_output_path was called where the default directory exists or
\* can be made, and has ended
Normalized == req.op = "path" /\ req.default_ok /\ out.op # "none"

Acknowledged(w) ==
    /\ hist[w].acked # "no"
    /\ \A h \in Handlers : cancelling[h].pc = "idle" \/ cancelling[h].id # pid[w]

\* C22: whatever the interleaving of /cancel with the worker's test of line
\* 421 and the write that follows it, a worker that leaves the loop's end
\* after a cancel of its session was acknowledged leaves status cancelled,
\* never completed.
C22_AcknowledgedCancelEndsCancelled ==
    [][\A w \in Workers :
         (pc[w] \in {"complete", "cancelled"} /\ Returns(w) /\ Acknowledged(w))
           => download_progress'[pid[w]].status = "cancelled"]_vars

\* the record kept under id, or none
RecordOf(table, id) == IF id \in DOMAIN table THEN <<table[id]>> ELSE <<>>

\* C23: a session's record is written by that session's worker only: every
\* step that creates or changes the record under an id is a step of the
\* worker running with that id, never a step of /progress or /cancel.
C23_RecordSingleWriter ==
    [][\A id \in Ids :
         RecordOf(download_progress', id) # RecordOf(download_progress, id)
           => \E w \in SameId(id) : pc'[w] # pc[w]]_vars

\* C24: nothing is evicted: no step removes a record from download_progress;
\* an id leaves active_downloads only in the del of a /cancel request, which
\* then goes on to acknowledge; and a worker that finishes, with whatever
\* status, leaves the membership of its id as it was.
C24_NoEviction ==
    [][/\ DOMAIN download_progress \subseteq DOMAIN download_progress'
       /\ \A id \in active_downloads \ active_downloads' :
            \E h \in Handlers : /\ cancelling[h] = [pc |-> "del", id |-> id]
                                /\ cancelling'[h].pc = "update"
       /\ \A w \in Workers : Returns(w) => active_downloads' = active_downloads]_vars

\* a worker has finished with status completed and its id is still active
C24_Witness ==
    \E w \in Workers :
        /\ pc[w] = "returned"
        /\ pid[w] \in DOMAIN download_progress
        /\ Status(pid[w]) = "completed"
        /\ pid[w] \in active_downloads

\* C25: when the album is not found, or the filter leaves no track, the
\* worker's next step records status error and returns false; no album
\* directory was made and no track was handed to download_track.
C25_NothingToDownloadIsError ==
    [][\A w \in Workers :
         LET notFound == pc[w] = "info" /\ Returns(w) /\ ~hist'[w].raised
             noTrack == pc[w] = "filtered" /\ Len(tracks[w]) = 0 /\ pc'[w] # pc[w]
         IN  (notFound \/ noTrack) =>
               /\ Returns(w)
               /\ download_progress'[pid[w]].status = "error"
               /\ ret'[w] = "false"
               /\ ~hist[w].madedir
               /\ hist[w].begun = <<>>]_vars

\* a worker found no track to download, and has returned false with the
\* error recorded
C25_Witness ==
    \E w \in Workers :
        /\ pc[w] = "returned"
        /\ ret[w] = "false"
        /\ pid[w] \in DOMAIN download_progress
        /\ Status(pid[w]) = "error"
        /\ download_progress[pid[w]].message.kind = "No tracks to download"

\* C26: a track that download_track gave up on (the file could not be opened
\* or written, or is not larger than 1000 bytes, among its reasons) is not
\* counted as done, and the loop goes on to the next track without touching
\* the status; a failure of os.makedirs for the album directory ends the
\* download with status error before any track was begun.
C26_TrackFailureSkipsDirFailureAborts ==
    [][\A w \in Workers :
         /\ (pc[w] = "track" /\ pc'[w] # "track" /\ hist'[w].failed # hist[w].failed) =>
              /\ done'[w] = done[w]
              /\ download_progress' = download_progress
              /\ IF i[w] < Len(tracks[w])
                 THEN pc'[w] = "check" /\ i'[w] = i[w] + 1
                 ELSE pc'[w] = "after"
         /\ (pc[w] = "mkdir" /\ hist'[w].raised) =>
              /\ Returns(w)
              /\ ret'[w] = "false"
              /\ download_progress'[pid[w]].status = "error"
              /\ hist[w].begun = <<>>]_vars

\* the first track failed and the second was begun after it
C26_Witness ==
    \E w \in Workers :
        /\ hist[w].failed = {1}
        /\ hist[w].begun = <<1, 2>>
        /\ hist[w].saved = 0
        /\ pc[w] = "track"

\* C27: every accepted download comes to an end: its worker returns, and
\* from then on the record shows completed, error or cancelled, whether or
\* not cancel requests arrive and wherever they arrive.
C27_SessionTerminates ==
    \A w \in FirstWorker :
        (pc[w] # "idle") ~> [](pc[w] = "returned" /\ Status(pid[w]) \in Terminal)

\* a session that was cancelled on the way has come to its end
C27_Witness ==
    \E w \in FirstWorker :
        /\ pc[w] = "returned"
        /\ Status(pid[w]) = "cancelled"
        /\ pid[w] \notin active_downloads
        /\ \A h \in Handlers : cancelling[h].pc = "idle"

\* C28: in every record 0 <= current_track <= total_tracks, both are 0
\* while the status is starting, and total_tracks is set on entering
\* downloading to the number of selected tracks and never changes after.
C28_CountersWithinTotal ==
    [][/\ \A id \in DOMAIN download_progress' :
            LET r == download_progress'[id] IN
            /\ 0 <= r.current_track /\ r.current_track <= r.total_tracks
            /\ r.status = "starting" => r.current_track = 0 /\ r.total_tracks = 0
       /\ \A id \in DOMAIN download_progress :
            download_progress[id].total_tracks # 0
              => download_progress'[id].total_tracks = download_progress[id].total_tracks
       /\ \A w \in Workers :
            (pc[w] = "filtered" /\ pc'[w] = "mkdir")
              => download_progress'[pid[w]].total_tracks = Len(tracks[w])]_vars

\* C29: the current_track of a session's record never decreases, from the
\* starting record through the per-track updates to the final write.
C29_CurrentTrackNeverDecreases ==
    [][\A id \in DOMAIN download_progress :
         download_progress'[id].current_track >= download_progress[id].current_track]_vars

\* C29 as amended: the values a worker writes to current_track go up by one
\* with each per-track update, starting from the 0 of the starting record;
\* its completed write sets current_track to the number of tracks saved,
\* which is the last per-track value exactly when no track failed; and no
\* other write of the worker touches current_track.
C29_CurrentTrackWrites ==
    [][\A w \in Workers :
         (pc'[w] # pc[w] /\ pc[w] \notin {"idle", "begin"}) =>
           LET before == download_progress[pid[w]].current_track
               after == download_progress'[pid[w]].current_track
           IN  IF pc[w] = "update" /\ pc'[w] = "track"
               THEN after = Len(hist[w].begun) + 1
               ELSE IF pc[w] = "complete"
               THEN /\ after = hist[w].saved
                    /\ after <= Len(hist[w].begun)
                    /\ after = Len(hist[w].begun) <=> hist[w].failed = {}
               ELSE after = before]_vars

\* a download of three tracks has ended completed with one track saved
C29_Witness ==
    \E w \in Workers :
        /\ pc[w] = "returned"
        /\ Status(pid[w]) = "completed"
        /\ download_progress[pid[w]].total_tracks = 3
        /\ download_progress[pid[w]].current_track = 1

\* C30: sessions with distinct ids are isolated: whenever a step changes the
\* record kept under an id B, or B's membership in the active set, the step is
\* one of the worker whose session id is B or of a cancel request for B; so a
\* cancel request for another session A, and every write of A's worker, leaves
\* B's record and B's membership as they were.
C30_SessionsIsolated ==
    [][\A B \in Ids :
         (\/ RecordOf(download_progress', B) # RecordOf(download_progress, B)
          \/ (B \in active_downloads') # (B \in active_downloads))
         => \/ \E w \in Workers : pid'[w] = B /\ pc'[w] # pc[w]
            \/ \E h \in Handlers : /\ cancelling[h].pc # "idle"
                                    /\ cancelling[h].id = B
                                    /\ cancelling'[h] # cancelling[h]]_vars

\* two downloads with distinct ids: the first was cancelled and has left the
\* active set, the second ran to completion and is still in it
C30_Witness ==
    /\ pc[1] = "returned" /\ pc[2] = "returned" /\ pid[1] # pid[2]
    /\ Status(pid[1]) = "cancelled" /\ pid[1] \notin active_downloads
    /\ Status(pid[2]) = "completed" /\ pid[2] \in active_downloads
    /\ download_progress[pid[2]].current_track = download_progress[pid[2]].total_tracks
    /\ download_progress[pid[2]].total_tracks > 0

====
